---- MODULE Spec2Model ----
(***************************************************************************)
(* Model of ThemeTracker: the Reddit theme analyzer (src/ThemesTracker.py) *)
(* and the YouTube theme tracker (src/theme-tracker.py).                   *)
(*                                                                         *)
(* A Python str is a sequence of one-character strings; a Python value     *)
(* that may be a str, None or a float NaN is a record [type, val].         *)
(***************************************************************************)
EXTENDS Integers, Sequences, FiniteSets, TLC

VARIABLES
    nz_text,      \* preprocess_text: the argument `text`
    nz_result,    \* preprocess_text: [done, tokens], the value returned
    pc,           \* main of ThemesTracker.py: "idle", "loop" or "titles"
    subreddits,   \* main: the subreddits selected in the sidebar
    idx,          \* main: position of the loop of line 179 in subreddits
    all_results,  \* main: the dict all_results, in insertion order
    all_words,    \* generate_titles: its local all_words when it ended
    all_bigrams,  \* generate_titles: its local all_bigrams when it ended
    titles,       \* main: the list generate_titles returned, <<>> before
    st_error,     \* main: the exception caught at line 275, "" when none
    dfs,          \* main: the DataFrame df of line 181 in each pass of the loop so far
    cl_title,       \* generate_video_context: the argument `title`
    cl_description, \* generate_video_context: the argument `description`
    cl_result,      \* generate_video_context: [done, context], the value returned
    session_state,  \* theme-tracker.py: st.session_state, the three cached lists
    data_source,    \* theme-tracker.py: the value of the selectbox of line 384
    selected_videos, \* theme-tracker.py: selected_videos at the end of a script run
    button,        \* theme-tracker.py: the mining button pressed in the last script run, "" if none
    fetched,       \* theme-tracker.py: what get_popular_videos returned in that run
    last_stored,   \* theme-tracker.py: per cache key, the last fetch result line 296 stored
    sm_subreddit,  \* lines 184-192 of main on their own: the subreddit
    sm_df,         \* lines 184-192 of main on their own: the DataFrame df
    sm_result,     \* lines 184-192 of main on their own: [done, entry]
    gp_api,        \* get_popular_videos: what the YouTube API does in the call
    gp_result,     \* get_popular_videos: [done, out], how the call ended
    lt_video_data, \* generate_lecture_themes: the argument `video_data`
    lt_age_group,  \* generate_lecture_themes: the argument `age_group`
    lt_philosophy, \* generate_lecture_themes: st.session_state['philosophy_context_cleaned']
    lt_backend,    \* generate_lecture_themes: what the Gemini backend does in the call
    lt_result      \* generate_lecture_themes: [done, out], how the call ended

vars == <<nz_text, nz_result, pc, subreddits, idx, all_results, all_words, all_bigrams,
          titles, st_error, dfs, cl_title, cl_description, cl_result,
          session_state, data_source, selected_videos, button, fetched, last_stored,
          sm_subreddit, sm_df, sm_result,
          gp_api, gp_result, lt_video_data, lt_age_group, lt_philosophy, lt_backend,
          lt_result>>

cl_vars == <<cl_title, cl_description, cl_result>>

yt_vars == <<session_state, data_source, selected_videos, button, fetched, last_stored>>

nz_vars == <<nz_text, nz_result>>

main_vars == <<pc, subreddits, idx, all_results, all_words, all_bigrams, titles, st_error,
               dfs>>

sm_vars == <<sm_subreddit, sm_df, sm_result>>

gp_vars == <<gp_api, gp_result>>

lt_vars == <<lt_video_data, lt_age_group, lt_philosophy, lt_backend, lt_result>>

outside_main == <<nz_vars, cl_vars, yt_vars, sm_vars, gp_vars, lt_vars>>

outside_tracker == <<nz_vars, main_vars, cl_vars, sm_vars, gp_vars, lt_vars>>

outside_classify == <<nz_vars, main_vars, yt_vars, sm_vars, gp_vars, lt_vars>>

outside_normalize == <<main_vars, cl_vars, yt_vars, sm_vars, gp_vars, lt_vars>>

outside_summary == <<nz_vars, main_vars, cl_vars, yt_vars, gp_vars, lt_vars>>

outside_backends == <<nz_vars, main_vars, cl_vars, yt_vars, sm_vars>>

(***************************************************************************)
(* Python str primitives                                                   *)
(***************************************************************************)
Letters ==
    <<"a","b","c","d","e","f","g","h","i","j","k","l","m",
      "n","o","p","q","r","s","t","u","v","w","x","y","z">>

Capitals ==
    <<"A","B","C","D","E","F","G","H","I","J","K","L","M",
      "N","O","P","Q","R","S","T","U","V","W","X","Y","Z">>

Range(s) == {s[i] : i \in 1..Len(s)}

LetterSet == Range(Letters)

CapitalSet == Range(Capitals)

\* the lower-case letter of a capital, and the capital of a lower-case letter
ToLower == [c \in CapitalSet |-> Letters[CHOOSE i \in 1..Len(Capitals) : Capitals[i] = c]]

ToUpper == [c \in LetterSet |-> Capitals[CHOOSE i \in 1..Len(Letters) : Letters[i] = c]]

IsLowerChar(c) == c \in LetterSet

IsUpperChar(c) == c \in CapitalSet

IsAlphaChar(c) == IsLowerChar(c) \/ IsUpperChar(c)

IsSpaceChar(c) == c \in {" ", "\t", "\n"}

LowerChar(c) == IF IsUpperChar(c) THEN ToLower[c] ELSE c

UpperChar(c) == IF IsLowerChar(c) THEN ToUpper[c] ELSE c

\* str.lower()
lower(s) == [i \in 1..Len(s) |-> LowerChar(s[i])]

\* str.isalpha(): non-empty and every character alphabetic
isalpha(s) == Len(s) > 0 /\ \A i \in 1..Len(s) : IsAlphaChar(s[i])

\* str.isspace(): non-empty and every character whitespace
isspace(s) == Len(s) > 0 /\ \A i \in 1..Len(s) : IsSpaceChar(s[i])

\* str.endswith(suffix)
endswith(s, suffix) ==
    /\ Len(suffix) <= Len(s)
    /\ SubSeq(s, Len(s) - Len(suffix) + 1, Len(s)) = suffix

(***************************************************************************)
(* Python values: str, None, float NaN                                     *)
(***************************************************************************)
PyStr(s) == [type |-> "str", val |-> s]

PyNone == [type |-> "NoneType", val |-> <<>>]

PyNaN == [type |-> "float", val |-> <<>>]

\* isinstance(text, str)
isinstance_str(v) == v.type = "str"

\* str(text)
str(v) ==
    CASE v.type = "str" -> v.val
      [] v.type = "NoneType" -> <<"N","o","n","e">>
      [] v.type = "float" -> <<"n","a","n">>

(***************************************************************************)
(* nltk collaborators of preprocess_text                                   *)
(***************************************************************************)
\* stopwords.words('english'): the entries over the modelled characters
stop_words ==
    { <<"a">>, <<"s">>, <<"a","n">>, <<"a","s">>, <<"c","a","n">>,
      <<"n","o">>, <<"s","o">>, <<"o","n">>, <<"i","n">>, <<"i","s">>,
      <<"i","t">>, <<"o","f">>, <<"t","o">>, <<"a","n","d">>,
      <<"t","h","e">>, <<"n","o","t">>, <<"n","o","r">> }

\* word_tokenize on text made of letters, digits and whitespace: the maximal
\* runs of non-whitespace characters, in order
RECURSIVE word_tokenize_from(_, _, _)
word_tokenize_from(s, i, cur) ==
    IF i > Len(s)
    THEN IF cur = <<>> THEN <<>> ELSE <<cur>>
    ELSE IF IsSpaceChar(s[i])
         THEN (IF cur = <<>> THEN <<>> ELSE <<cur>>) \o word_tokenize_from(s, i + 1, <<>>)
         ELSE word_tokenize_from(s, i + 1, Append(cur, s[i]))

word_tokenize(s) == word_tokenize_from(s, 1, <<>>)

\* WordNet noun index: the entries over the modelled characters
wordnet_nouns ==
    { <<"a">>, <<"u">>, <<"a","s">>, <<"u","s">>, <<"c","a","n">>,
      <<"s","u","n">>, <<"n","u","n">>, <<"n","a","n">>,
      <<"n","o","n","e">> }

\* wordnet.MORPHOLOGICAL_SUBSTITUTIONS[NOUN]
MORPHOLOGICAL_SUBSTITUTIONS ==
    << <<<<"s">>, <<>>>>,
       <<<<"s","e","s">>, <<"s">>>>,
       <<<<"v","e","s">>, <<"f">>>>,
       <<<<"x","e","s">>, <<"x">>>>,
       <<<<"z","e","s">>, <<"z">>>>,
       <<<<"c","h","e","s">>, <<"c","h">>>>,
       <<<<"s","h","e","s">>, <<"s","h">>>>,
       <<<<"m","e","n">>, <<"m","a","n">>>>,
       <<<<"i","e","s">>, <<"y">>>> >>

\* SelectSeq with a one-argument test
filter_forms(forms) ==
    LET InIndex(f) == f \in wordnet_nouns IN SelectSeq(forms, InIndex)

\* the forms one detachment rule step produces from one form, in rule order
RECURSIVE apply_rules_one(_, _)
apply_rules_one(form, r) ==
    IF r > Len(MORPHOLOGICAL_SUBSTITUTIONS)
    THEN <<>>
    ELSE LET old == MORPHOLOGICAL_SUBSTITUTIONS[r][1]
             new == MORPHOLOGICAL_SUBSTITUTIONS[r][2]
             hit == IF endswith(form, old)
                    THEN <<SubSeq(form, 1, Len(form) - Len(old)) \o new>>
                    ELSE <<>>
         IN hit \o apply_rules_one(form, r + 1)

RECURSIVE apply_rules(_)
apply_rules(forms) ==
    IF forms = <<>> THEN <<>>
    ELSE apply_rules_one(Head(forms), 1) \o apply_rules(Tail(forms))

\* the detachment loop of WordNet's morphy: apply the rules again to the
\* produced forms until one of them is in the index or none is left
RECURSIVE morphy_loop(_)
morphy_loop(forms) ==
    IF forms = <<>> THEN <<>>
    ELSE LET next == apply_rules(forms)
             results == filter_forms(next)
         IN IF results # <<>> THEN results ELSE morphy_loop(next)

morphy(form) ==
    LET forms == apply_rules(<<form>>)
        results == filter_forms(<<form>> \o forms)
    IN IF results # <<>> THEN results ELSE morphy_loop(forms)

\* min(lemmas, key=len): the first of the shortest
min_by_len(lemmas) ==
    lemmas[CHOOSE i \in 1..Len(lemmas) :
              /\ \A j \in 1..Len(lemmas) : Len(lemmas[i]) <= Len(lemmas[j])
              /\ \A j \in 1..(i - 1) : Len(lemmas[j]) > Len(lemmas[i])]

\* WordNetLemmatizer.lemmatize(token), pos = noun
lemmatize(token) ==
    LET lemmas == morphy(token)
    IN IF lemmas # <<>> THEN min_by_len(lemmas) ELSE token

(***************************************************************************)
(* RedditThemeAnalyzer.preprocess_text                                     *)
(***************************************************************************)
\* the filter of lines 104-106
keep_token(token) ==
    /\ isalpha(token)
    /\ token \notin stop_words
    /\ Len(token) > 1

\* nltk_raises tells that word_tokenize (line 100) or lemmatize (line 109)
\* raises in this call; the except of lines 113-115 then returns []
preprocess_text(text, nltk_raises) ==
    LET t == IF ~isinstance_str(text) THEN str(text) ELSE text.val
    IN IF t = <<>> \/ isspace(t)
       THEN <<>>
       ELSE IF nltk_raises
       THEN <<>>
       ELSE LET tokens == SelectSeq(word_tokenize(lower(t)), keep_token)
            IN [i \in 1..Len(tokens) |-> lemmatize(tokens[i])]

NotCalled == [done |-> FALSE, tokens |-> <<>>]

(***************************************************************************)
(* collections.Counter: (key, count) entries in first-insertion order      *)
(***************************************************************************)
EmptyCounter == <<>>

HasKey(c, k) == \E i \in 1..Len(c) : c[i].key = k

CounterIncrement_once(c, k) ==
    IF HasKey(c, k)
    THEN c
    ELSE Append(c, [key |-> k, n |-> 1])

\* c[k] += 1
CounterIncrement(c, k) ==
    IF HasKey(c, k)
    THEN [i \in 1..Len(c) |-> IF c[i].key = k THEN [c[i] EXCEPT !.n = @ + 1] ELSE c[i]]
    ELSE Append(c, [key |-> k, n |-> 1])

\* Counter(iterable)
RECURSIVE CounterUpdate(_, _)
CounterUpdate(c, list) ==
    IF list = <<>> THEN c
    ELSE CounterUpdate(CounterIncrement(c, Head(list)), Tail(list))

Counter(list) == CounterUpdate(EmptyCounter, list)

\* list(counter.keys())
keys(c) == [i \in 1..Len(c) |-> c[i].key]

\* counter[k], 0 for a missing key
CountOf(c, k) == IF HasKey(c, k) THEN c[CHOOSE i \in 1..Len(c) : c[i].key = k].n ELSE 0

\* list[:n]
Take(list, n) == SubSeq(list, 1, IF Len(list) < n THEN Len(list) ELSE n)

\* list(nltk.bigrams(tokens))
bigrams(tokens) ==
    IF Len(tokens) < 2 THEN <<>>
    ELSE [i \in 1..(Len(tokens) - 1) |-> <<tokens[i], tokens[i + 1]>>]

(***************************************************************************)
(* RedditThemeAnalyzer.extract_themes and analyze_sentiment                *)
(***************************************************************************)
\* df['text'].fillna('')
fillna(v) == IF v.type = "str" THEN v ELSE PyStr(<<>>)

\* df['title'] + ' ' + df['text'].fillna('') for one row
full_text(post) == PyStr(post.title.val \o <<" ">> \o fillna(post.text).val)

\* the posts a subreddit may hold
Posts ==
    { \* "joy ego zen art awe tao tao", a link post
      [title |-> PyStr(<<"j","o","y"," ","e","g","o"," ","z","e","n"," ","a","r","t"," ",
                         "a","w","e"," ","t","a","o"," ","t","a","o">>),
       text |-> PyNone, polarity |-> 50, scoring_raises |-> FALSE,
       tokenize_raises |-> FALSE],
      \* "Tao joy" / "zen zen"
      [title |-> PyStr(<<"T","a","o"," ","j","o","y">>),
       text |-> PyStr(<<"z","e","n"," ","z","e","n">>), polarity |-> -50,
       scoring_raises |-> FALSE, tokenize_raises |-> FALSE],
      \* "ego" / "", tokenizing raises and scoring raises
      [title |-> PyStr(<<"e","g","o">>),
       text |-> PyStr(<<>>), polarity |-> 0, scoring_raises |-> TRUE,
       tokenize_raises |-> TRUE] }

\* line 126 for every post that may occur, computed once; tokenize_raises
\* tells that nltk raises on the post's text
tokens_of ==
    [post \in Posts |-> preprocess_text(full_text(post), post.tokenize_raises)]

\* the loop of lines 124-127
RECURSIVE all_tokens_of(_)
all_tokens_of(df) ==
    IF df = <<>> THEN <<>>
    ELSE tokens_of[Head(df)] \o all_tokens_of(Tail(df))

extract_themes_abort(df) ==
    IF \E i \in 1..Len(df) : df[i].tokenize_raises
    THEN [word_freq |-> EmptyCounter, bigram_freq |-> EmptyCounter]
    ELSE LET all_tokens == all_tokens_of(df)
         IN [word_freq |-> Counter(all_tokens),
             bigram_freq |-> Counter(bigrams(all_tokens))]

extract_themes(df) ==
    LET all_tokens == all_tokens_of(df)
    IN [word_freq |-> Counter(all_tokens),
        bigram_freq |-> Counter(bigrams(all_tokens))]

RECURSIVE SumSeq(_)
SumSeq(s) == IF s = <<>> THEN 0 ELSE Head(s) + SumSeq(Tail(s))

\* polarity is TextBlob's score in hundredths; scoring_raises tells that
\* scoring the post raises instead
analyze_sentiment(df) ==
    IF \E i \in 1..Len(df) : df[i].scoring_raises
    THEN [i \in 1..Len(df) |-> 0]
    ELSE [i \in 1..Len(df) |-> df[i].polarity]

\* pd.Series.mean(), kept as the exact fraction sum / n; n = 0 is the NaN
\* that pandas returns for the mean of an empty Series
mean(series) == [sum |-> SumSeq(series), n |-> Len(series)]

(***************************************************************************)
(* generate_titles                                                         *)
(***************************************************************************)
TopWords == 5

TopBigrams == 3

\* str.title(): the first letter of every run of letters in upper case, the
\* other letters in lower case
title(s) ==
    [i \in 1..Len(s) |->
        IF i = 1 \/ ~IsAlphaChar(s[i - 1]) THEN UpperChar(s[i]) ELSE LowerChar(s[i])]

Lit(chars) == [kind |-> "lit", chars |-> chars, slot |-> 0, elem |-> 0]

Word(slot) == [kind |-> "word", chars |-> <<>>, slot |-> slot, elem |-> 0]

Bigram(slot, elem) == [kind |-> "bigram", chars |-> <<>>, slot |-> slot, elem |-> elem]

\* the f-strings of lines 243-252; slots are Python's 0-based indices
TEMPLATES ==
    <<
    << Lit(<<"T","h","e"," ","Q","u","e","s","t"," ","f","o","r"," ","M","e","a","n","i","n","g",":"," ">>),
       Word(0),
       Lit(<<" ","a","s"," ","a"," ","P","a","t","h"," ","t","o"," ","P","u","r","p","o","s","e">>) >>,
    << Lit(<<"F","r","o","m"," ">>),
       Word(1),
       Lit(<<" ","t","o"," ">>),
       Word(2),
       Lit(<<":"," ","A"," ","J","o","u","r","n","e","y"," ","o","f"," ","S","e","l","f","-","D","i","s","c","o","v","e","r","y">>) >>,
    << Lit(<<"U","n","d","e","r","s","t","a","n","d","i","n","g"," ">>),
       Word(3),
       Lit(<<":"," ","T","h","e"," ","K","e","y"," ","t","o"," ","P","e","r","s","o","n","a","l"," ","G","r","o","w","t","h">>) >>,
    << Lit(<<"T","h","e"," ","A","r","t"," ","o","f"," ">>),
       Bigram(0, 0),
       Lit(<<" ">>),
       Bigram(0, 1),
       Lit(<<":"," ","A"," ","P","h","i","l","o","s","o","p","h","i","c","a","l"," ","P","e","r","s","p","e","c","t","i","v","e">>) >>,
    << Lit(<<"B","e","y","o","n","d"," ">>),
       Word(4),
       Lit(<<":"," ","F","i","n","d","i","n","g"," ","A","u","t","h","e","n","t","i","c"," ","P","u","r","p","o","s","e"," ","i","n"," ","M","o","d","e","r","n"," ","L","i","f","e">>) >>,
    << Lit(<<"T","h","e"," ">>),
       Bigram(1, 0),
       Lit(<<" ">>),
       Bigram(1, 1),
       Lit(<<" ","M","e","t","h","o","d",":"," ","T","r","a","n","s","f","o","r","m","i","n","g"," ","S","e","l","f","-","U","n","d","e","r","s","t","a","n","d","i","n","g">>) >>,
    << Lit(<<"E","x","i","s","t","e","n","t","i","a","l"," ","W","i","s","d","o","m",":"," ">>),
       Word(0),
       Lit(<<" ","i","n"," ","t","h","e"," ","A","g","e"," ","o","f"," ","U","n","c","e","r","t","a","i","n","t","y">>) >>,
    << Lit(<<"T","h","e"," ","P","o","w","e","r"," ","o","f"," ">>),
       Word(2),
       Lit(<<":"," ","N","a","v","i","g","a","t","i","n","g"," ","L","i","f","e","'","s"," ","B","i","g"," ","Q","u","e","s","t","i","o","n","s">>) >>,
    << Bigram(2, 0),
       Lit(<<" ">>),
       Bigram(2, 1),
       Lit(<<":"," ","A"," ","B","l","u","e","p","r","i","n","t"," ","f","o","r"," ","P","e","r","s","o","n","a","l"," ","E","x","c","e","l","l","e","n","c","e">>) >>,
    << Lit(<<"M","a","s","t","e","r","i","n","g"," ">>),
       Word(1),
       Lit(<<":"," ","T","h","e"," ","P","a","t","h"," ","t","o"," ","A","u","t","h","e","n","t","i","c"," ","L","i","v","i","n","g">>) >>
    >>

\* the loop of lines 234-239 from the k-th entry of results_dict on
RECURSIVE merge_words(_, _)
\* mutant: the terms of later sources put first
merge_words_later_first(results_dict, k) ==
    IF k > Len(results_dict) THEN <<>>
    ELSE merge_words(results_dict, k + 1) \o Take(keys(results_dict[k].word_freq), TopWords)

merge_words(results_dict, k) ==
    IF k > Len(results_dict) THEN <<>>
    ELSE Take(keys(results_dict[k].word_freq), TopWords) \o merge_words(results_dict, k + 1)

RECURSIVE merge_bigrams(_, _)
merge_bigrams(results_dict, k) ==
    IF k > Len(results_dict) THEN <<>>
    ELSE Take(keys(results_dict[k].bigram_freq), TopBigrams) \o merge_bigrams(results_dict, k + 1)

\* whether evaluating one {...} of an f-string raises IndexError
part_raises(part, words, pairs) ==
    \/ part.kind = "word" /\ part.slot + 1 > Len(words)
    \/ part.kind = "bigram" /\ part.slot + 1 > Len(pairs)

part_text(part, words, pairs) ==
    CASE part.kind = "lit" -> part.chars
      [] part.kind = "word" -> title(words[part.slot + 1])
      [] part.kind = "bigram" -> title(pairs[part.slot + 1][part.elem + 1])

\* ''.join(texts[p - 1:])
RECURSIVE join(_, _)
join(texts, p) == IF p > Len(texts) THEN <<>> ELSE texts[p] \o join(texts, p + 1)

\* an f-string: the texts of its parts from the p-th on, one after the other
fstring(parts, p, words, pairs) ==
    LET texts == [q \in 1..Len(parts) |-> part_text(parts[q], words, pairs)]
    IN join(texts, p)

\* mutant: the last template dropped
generate_titles_nine(results_dict) ==
    LET words == merge_words(results_dict, 1)
        pairs == merge_bigrams(results_dict, 1)
        raises == \E t \in 1..Len(TEMPLATES) : \E p \in 1..Len(TEMPLATES[t]) :
                      part_raises(TEMPLATES[t][p], words, pairs)
    IN IF raises
       THEN [all_words |-> words, all_bigrams |-> pairs,
             error |-> "IndexError: list index out of range", titles |-> <<>>]
       ELSE [all_words |-> words, all_bigrams |-> pairs, error |-> "",
             titles |-> [t \in 1..(Len(TEMPLATES) - 1) |-> fstring(TEMPLATES[t], 1, words, pairs)]]

\* [all_words, all_bigrams, error, titles]: the locals, and the list of titles
\* returned or the exception raised
generate_titles(results_dict) ==
    LET words == merge_words(results_dict, 1)
        pairs == merge_bigrams(results_dict, 1)
        raises == \E t \in 1..Len(TEMPLATES) : \E p \in 1..Len(TEMPLATES[t]) :
                      part_raises(TEMPLATES[t][p], words, pairs)
    IN IF raises
       THEN [all_words |-> words, all_bigrams |-> pairs,
             error |-> "IndexError: list index out of range", titles |-> <<>>]
       ELSE [all_words |-> words, all_bigrams |-> pairs, error |-> "",
             titles |-> [t \in 1..Len(TEMPLATES) |-> fstring(TEMPLATES[t], 1, words, pairs)]]

(***************************************************************************)
(* main of ThemesTracker.py                                                *)
(***************************************************************************)
\* the options of the multiselect of line 161
SubredditOptions == <<"Existentialism", "SelfImprovement", "LifePurpose">>

\* selections, listed in the order of the options
Selections ==
    { <<>>,
      <<"Existentialism">>, <<"SelfImprovement">>, <<"LifePurpose">>,
      <<"Existentialism", "SelfImprovement">>,
      <<"Existentialism", "LifePurpose">>,
      <<"SelfImprovement", "LifePurpose">>,
      <<"Existentialism", "SelfImprovement", "LifePurpose">> }

\* limit of fetch_subreddit_posts, 100 in the program
MaxPosts == 2

RECURSIVE SeqsUpTo(_, _)
SeqsUpTo(S, n) ==
    IF n = 0 THEN {<<>>}
    ELSE LET shorter == SeqsUpTo(S, n - 1)
         IN shorter \cup {Append(s, x) : s \in {y \in shorter : Len(y) = n - 1}, x \in S}

DataFrames == SeqsUpTo(Posts, MaxPosts)

MainIdle ==
    /\ pc = "idle"
    /\ subreddits = <<>>
    /\ idx = 1
    /\ all_results = <<>>
    /\ all_words = <<>>
    /\ all_bigrams = <<>>
    /\ titles = <<>>
    /\ st_error = ""
    /\ dfs = <<>>

\* the button of line 174
ClickAnalyze ==
    /\ pc = "idle"
    /\ \E sel \in Selections : subreddits' = sel
    /\ pc' = "loop"
    /\ idx' = 1
    /\ all_results' = <<>>
    /\ all_words' = <<>>
    /\ all_bigrams' = <<>>
    /\ titles' = <<>>
    /\ st_error' = ""
    /\ dfs' = <<>>
    /\ UNCHANGED outside_main

\* lines 184-192: the entry stored for a subreddit.  On a DataFrame without
\* rows both calls end in their except branch (KeyError on the column), which
\* returns two empty Counters and pd.Series([0] * 0)
summary(subreddit, df) ==
    LET themes == extract_themes(df)
        sentiment == analyze_sentiment(df)
    IN [subreddit |-> subreddit,
        posts |-> df,
        word_freq |-> themes.word_freq,
        bigram_freq |-> themes.bigram_freq,
        sentiment |-> mean(sentiment)]

analyze_abort(subreddit, df) ==
    IF df = <<>>
    THEN <<>>
    ELSE Append(all_results, summary(subreddit, df))

\* lines 183-192 for the DataFrame fetch_subreddit_posts returned
analyze(subreddit, df) ==
    IF df = <<>>
    THEN all_results
    ELSE Append(all_results, summary(subreddit, df))

\* one pass of the loop of line 179; the fetch returns a DataFrame
FetchAndAnalyze ==
    /\ pc = "loop"
    /\ idx <= Len(subreddits)
    /\ \E df \in DataFrames :
          /\ all_results' = analyze(subreddits[idx], df)
          /\ dfs' = Append(dfs, df)
    /\ idx' = idx + 1
    /\ UNCHANGED <<pc, subreddits, all_words, all_bigrams, titles, st_error>>
    /\ UNCHANGED outside_main

\* one pass of the loop of line 179; the fetch raises and returns
\* pd.DataFrame() (lines 80-88)
FetchFails ==
    /\ pc = "loop"
    /\ idx <= Len(subreddits)
    /\ all_results' = analyze(subreddits[idx], <<>>)
    /\ dfs' = Append(dfs, <<>>)
    /\ idx' = idx + 1
    /\ UNCHANGED <<pc, subreddits, all_words, all_bigrams, titles, st_error>>
    /\ UNCHANGED outside_main

\* lines 257-276 once the loop is over
SuggestTitles ==
    /\ pc = "loop"
    /\ idx > Len(subreddits)
    /\ pc' = "titles"
    /\ IF all_results # <<>>
       THEN LET r == generate_titles(all_results)
            IN /\ all_words' = r.all_words
               /\ all_bigrams' = r.all_bigrams
               /\ titles' = r.titles
               /\ st_error' = r.error
       ELSE /\ all_words' = <<>>
            /\ all_bigrams' = <<>>
            /\ titles' = <<>>
            /\ st_error' = ""
    /\ UNCHANGED <<subreddits, idx, all_results, dfs>>
    /\ UNCHANGED outside_main

\* the script has run to its end and its locals are gone; the next click
\* runs it again
Rerun ==
    /\ pc = "titles"
    /\ pc' = "idle"
    /\ subreddits' = <<>>
    /\ idx' = 1
    /\ all_results' = <<>>
    /\ all_words' = <<>>
    /\ all_bigrams' = <<>>
    /\ titles' = <<>>
    /\ st_error' = ""
    /\ dfs' = <<>>
    /\ UNCHANGED outside_main

(***************************************************************************)
(* generate_video_context of theme-tracker.py                              *)
(***************************************************************************)
\* the cap of line 167
DescriptionCap == 200

\* the rules of lines 172-191, an alternation as the list of its alternatives
RULES ==
    << 
       [pattern |-> << <<"m","e","d","i","t","a","t","i","o","n">>,
                       <<"m","i","n","d","f","u","l","n","e","s","s">> >>,
        label |-> "Meditation/Mindfulness practice"],
       [pattern |-> << <<"b","u","d","d","h","i","s">>,
                       <<"z","e","n">>,
                       <<"t","a","o">> >>,
        label |-> "Eastern philosophy"],
       [pattern |-> << <<"c","h","r","i","s","t","i","a","n">>,
                       <<"j","e","s","u","s">>,
                       <<"b","i","b","l","e">>,
                       <<"f","a","i","t","h">> >>,
        label |-> "Christian spirituality"],
       [pattern |-> << <<"i","s","l","a","m">>,
                       <<"m","u","s","l","i","m">>,
                       <<"q","u","r","a","n">> >>,
        label |-> "Islamic spirituality"],
       [pattern |-> << <<"j","u","d","a","i","s","m">>,
                       <<"j","e","w","i","s","h">>,
                       <<"t","o","r","a","h">> >>,
        label |-> "Jewish spirituality"],
       [pattern |-> << <<"h","i","n","d","u">>,
                       <<"v","e","d","a","n","t","a">>,
                       <<"y","o","g","a">> >>,
        label |-> "Hindu spirituality"],
       [pattern |-> << <<"c","o","n","s","c","i","o","u","s","n","e","s","s">>,
                       <<"a","w","a","r","e","n","e","s","s">> >>,
        label |-> "Consciousness exploration"],
       [pattern |-> << <<"p","s","y","c","h","e","d","e","l","i","c">>,
                       <<"p","l","a","n","t"," ","m","e","d","i","c","i","n","e">>,
                       <<"a","y","a","h","u","a","s","c","a">>,
                       <<"d","m","t">> >>,
        label |-> "Psychedelic spirituality"],
       [pattern |-> << <<"n","e","a","r"," ","d","e","a","t","h">>,
                       <<"a","f","t","e","r","l","i","f","e">>,
                       <<"h","e","a","v","e","n">> >>,
        label |-> "Afterlife exploration"],
       [pattern |-> << <<"s","c","i","e","n","c","e">>,
                       <<"p","h","y","s","i","c","s">>,
                       <<"q","u","a","n","t","u","m">> >>,
        label |-> "Science and spirituality"]
    >>

\* mutant: another default label
DEFAULT_CONTEXT_general == "general"

\* the label of line 193
DEFAULT_CONTEXT == "General spiritual content"

\* whether pat occurs in text
contains(text, pat) ==
    \E i \in 1..(Len(text) - Len(pat) + 1) : \A j \in 1..Len(pat) : text[i + j - 1] = pat[j]

\* re.search(alternation, text) is not None
re_search(pattern, text) == \E a \in 1..Len(pattern) : contains(text, pattern[a])

\* description[:200] + "..." if len(description) > 200 else description
brief_desc(description) ==
    IF Len(description) > DescriptionCap
    THEN SubSeq(description, 1, DescriptionCap) \o <<".", ".", ".">>
    ELSE description

\* the if/elif chain from the k-th rule on
RECURSIVE first_match(_, _)
\* mutant: a later matching rule overrides an earlier one
last_match(text, k) ==
    IF k > Len(RULES) THEN DEFAULT_CONTEXT
    ELSE LET rest == first_match(text, k + 1)
         IN IF rest # DEFAULT_CONTEXT THEN rest
            ELSE IF re_search(RULES[k].pattern, text) THEN RULES[k].label
            ELSE DEFAULT_CONTEXT

first_match(text, k) ==
    IF k > Len(RULES) THEN DEFAULT_CONTEXT
    ELSE IF re_search(RULES[k].pattern, text) THEN RULES[k].label
    ELSE first_match(text, k + 1)

generate_video_context(video_title, description) ==
    first_match(lower(video_title) \o lower(brief_desc(description)), 1)

(***************************************************************************)
(* theme-tracker.py: mining into the session cache, and the data source    *)
(***************************************************************************)
\* a key a dict does not have
Absent == "<absent>"

\* the videos YouTube may return: title, description and views by video id
VideoIds == {"v1", "v2", "v3"}

Catalogue ==
    [id \in VideoIds |->
        CASE id = "v1" -> [title |-> <<"Z","e","n">>,
                           description |-> <<"d","m","t">>, view_count |-> 20]
          [] id = "v2" -> [title |-> <<"F","a","i","t","h">>,
                           description |-> <<>>, view_count |-> 20]
          [] id = "v3" -> [title |-> <<"L","i","f","e">>,
                           description |-> <<>>, view_count |-> 10]]

\* the value of the slider of line 40, 5 to 50 in the program
MaxResults == 2

\* videos_response['items']: distinct videos, in the order the API lists them
ApiResponses ==
    {items \in SeqsUpTo(VideoIds, MaxResults) :
        \A i, j \in 1..Len(items) : i # j => items[i] # items[j]}

\* one dict of lines 144-154; the fields the tracker only displays are left out
result_of(id) ==
    [video_id |-> id,
     title |-> Catalogue[id].title,
     description |-> Catalogue[id].description,
     view_count |-> Catalogue[id].view_count,
     context |-> Absent,
     source |-> Absent]

\* results.sort(key=view_count, reverse=True): stable, equal counts keep
\* their order
RECURSIVE insert_by_views(_, _)
insert_by_views(sorted, v) ==
    IF sorted = <<>> THEN <<v>>
    ELSE IF Head(sorted).view_count >= v.view_count
         THEN <<Head(sorted)>> \o insert_by_views(Tail(sorted), v)
         ELSE <<v>> \o sorted

RECURSIVE sort_by_views(_)
sort_by_views(results) ==
    IF results = <<>> THEN <<>>
    ELSE insert_by_views(sort_by_views(SubSeq(results, 1, Len(results) - 1)),
                         results[Len(results)])

\* get_popular_videos when no call raises
get_popular_videos(items) == sort_by_views([i \in 1..Len(items) |-> result_of(items[i])])

\* a call ends by returning a value or by an exception leaving it
Returned(value) == [raised |-> FALSE, value |-> value]

Raised(exception) == [raised |-> TRUE, value |-> exception]

\* the statements of the try block of get_popular_videos that may raise:
\* build (line 118), the search request (line 129), the statistics request
\* (line 139) and the reading of an item (lines 144-154)
ApiSteps == {"build", "search_request.execute", "videos_request.execute", "item"}

ApiOutcomes ==
    {[raises |-> "", items |-> items] : items \in ApiResponses}
        \cup {[raises |-> step, items |-> <<>>] : step \in ApiSteps}

\* get_popular_videos with its try and except (lines 116-162)
try_get_popular_videos(api) ==
    IF api.raises # ""
    THEN Returned(<<>>)
    ELSE Returned(get_popular_videos(api.items))

\* generate_video_context(video['title'], video['description']) for every
\* video of the catalogue, computed once
context_of ==
    [id \in VideoIds |->
        generate_video_context(Catalogue[id].title, Catalogue[id].description)]

\* lines 293-294
add_context(videos) ==
    [i \in 1..Len(videos) |-> [videos[i] EXCEPT !.context = context_of[videos[i].video_id]]]

\* the labels of the selectbox of line 384
DataSources == {"Last Week", "Last Month", "Last 6 Months", "Combined (All Time Periods)"}

\* data_mapping of lines 390-394
data_mapping ==
    [label \in {"Last Week", "Last Month", "Last 6 Months"} |->
        CASE label = "Last Week" -> "weekly_videos"
          [] label = "Last Month" -> "monthly_videos"
          [] label = "Last 6 Months" -> "biannual_videos"]

SessionKeys == {"weekly_videos", "monthly_videos", "biannual_videos"}

\* lines 407-412: v['source'] = label for every v of a cached list
tag(videos, label) == [i \in 1..Len(videos) |-> [videos[i] EXCEPT !.source = label]]

\* mutant: the longest window first
all_videos_longest_first(weekly, monthly, biannual) == biannual \o monthly \o weekly

\* all_videos of line 415
all_videos_of(weekly, monthly, biannual) == weekly \o monthly \o biannual

\* the loop of lines 419-422
RECURSIVE dedup(_, _)
dedup(all_videos, video_ids_seen) ==
    IF all_videos = <<>> THEN <<>>
    ELSE IF Head(all_videos).video_id \notin video_ids_seen
         THEN <<Head(all_videos)>>
                  \o dedup(Tail(all_videos), video_ids_seen \cup {Head(all_videos).video_id})
         ELSE dedup(Tail(all_videos), video_ids_seen)

\* lines 396-422 on the cache ss: [state, selected], the cache afterwards (the
\* cached dicts are tagged in place) and selected_videos; session_state.get
\* reads a missing key as [], which is how the cache holds it
select_videos(ss, ds) ==
    IF ds \in DOMAIN data_mapping
    THEN [state |-> ss, selected |-> ss[data_mapping[ds]]]
    ELSE LET weekly == tag(ss["weekly_videos"], "Last Week")
             monthly == tag(ss["monthly_videos"], "Last Month")
             biannual == tag(ss["biannual_videos"], "Last 6 Months")
         IN [state |-> [k \in SessionKeys |->
                           CASE k = "weekly_videos" -> weekly
                             [] k = "monthly_videos" -> monthly
                             [] k = "biannual_videos" -> biannual],
             selected |-> dedup(all_videos_of(weekly, monthly, biannual), {})]

mine_extends(label, videos) ==
    LET stored == IF videos # <<>>
                  THEN [session_state EXCEPT ![data_mapping[label]] = @ \o add_context(videos)]
                  ELSE session_state
    IN select_videos(stored, data_source)

mine_stores_empty(label, videos) ==
    LET stored == [session_state EXCEPT ![data_mapping[label]] = add_context(videos)]
    IN select_videos(stored, data_source)

\* a script run in which the button of `label` is pressed and the fetch
\* returns `videos` ([] when it raised, lines 160-162): lines 291-297, then
\* the data source block; [state, selected] as select_videos
mine(label, videos) ==
    LET stored == IF videos # <<>>
                  THEN [session_state EXCEPT ![data_mapping[label]] = add_context(videos)]
                  ELSE session_state
    IN select_videos(stored, data_source)

\* what get_popular_videos may return when no step of the API raises, and
\* when one does
Fetches ==
    {try_get_popular_videos(api).value : api \in {a \in ApiOutcomes : a.raises = ""}}

FailedFetches ==
    {try_get_popular_videos(api).value : api \in {a \in ApiOutcomes : a.raises # ""}}

\* the fetch results line 296 (302, 331, 360) has stored last, key by key
stored_after(label, videos) ==
    IF videos # <<>>
    THEN [last_stored EXCEPT ![data_mapping[label]] = videos]
    ELSE last_stored

MineLastWeek ==
    /\ \E videos \in Fetches :
           LET shown == mine("Last Week", videos)
           IN /\ session_state' = shown.state
              /\ selected_videos' = shown.selected
              /\ fetched' = videos
              /\ last_stored' = stored_after("Last Week", videos)
    /\ button' = "Last Week"
    /\ UNCHANGED data_source
    /\ UNCHANGED outside_tracker

MineLastMonth ==
    /\ \E videos \in Fetches :
           LET shown == mine("Last Month", videos)
           IN /\ session_state' = shown.state
              /\ selected_videos' = shown.selected
              /\ fetched' = videos
              /\ last_stored' = stored_after("Last Month", videos)
    /\ button' = "Last Month"
    /\ UNCHANGED data_source
    /\ UNCHANGED outside_tracker

MineLast6Months ==
    /\ \E videos \in Fetches :
           LET shown == mine("Last 6 Months", videos)
           IN /\ session_state' = shown.state
              /\ selected_videos' = shown.selected
              /\ fetched' = videos
              /\ last_stored' = stored_after("Last 6 Months", videos)
    /\ button' = "Last 6 Months"
    /\ UNCHANGED data_source
    /\ UNCHANGED outside_tracker

\* a mining button pressed while a step of the YouTube API raises
MineFails ==
    /\ \E label \in DOMAIN data_mapping, videos \in FailedFetches :
           LET shown == mine(label, videos)
           IN /\ session_state' = shown.state
              /\ selected_videos' = shown.selected
              /\ fetched' = videos
              /\ last_stored' = stored_after(label, videos)
              /\ button' = label
    /\ UNCHANGED data_source
    /\ UNCHANGED outside_tracker

\* the selectbox of line 384 changed: a script run with no button pressed
SelectDataSource ==
    /\ \E ds \in DataSources :
           LET shown == select_videos(session_state, ds)
           IN /\ data_source' = ds
              /\ session_state' = shown.state
              /\ selected_videos' = shown.selected
    /\ button' = ""
    /\ fetched' = <<>>
    /\ UNCHANGED last_stored
    /\ UNCHANGED outside_tracker

NzIdle == nz_text = PyStr(<<>>) /\ nz_result = NotCalled

ClIdle == cl_title = <<>> /\ cl_description = <<>> /\ cl_result = [done |-> FALSE, context |-> ""]

YtIdle ==
    /\ session_state = [k \in SessionKeys |-> <<>>]
    /\ data_source = "Last Week"
    /\ selected_videos = <<>>
    /\ button = ""
    /\ fetched = <<>>
    /\ last_stored = [k \in SessionKeys |-> <<>>]

SmIdle == sm_subreddit = "" /\ sm_df = <<>> /\ sm_result = [done |-> FALSE]

GpIdle == gp_api = [raises |-> "", items |-> <<>>] /\ gp_result = [done |-> FALSE]

LtIdle ==
    /\ lt_video_data = <<>>
    /\ lt_age_group = ""
    /\ lt_philosophy = ""
    /\ lt_backend = [raises |-> "", text |-> ""]
    /\ lt_result = [done |-> FALSE]

IdleOutsideMain == NzIdle /\ ClIdle /\ YtIdle /\ SmIdle /\ GpIdle /\ LtIdle

IdleOutsideTracker == NzIdle /\ MainIdle /\ ClIdle /\ SmIdle /\ GpIdle /\ LtIdle

IdleOutsideClassify == NzIdle /\ MainIdle /\ YtIdle /\ SmIdle /\ GpIdle /\ LtIdle

IdleOutsideNormalize == MainIdle /\ ClIdle /\ YtIdle /\ SmIdle /\ GpIdle /\ LtIdle

IdleOutsideSummary == NzIdle /\ MainIdle /\ ClIdle /\ YtIdle /\ GpIdle /\ LtIdle

IdleOutsideBackends == NzIdle /\ MainIdle /\ ClIdle /\ YtIdle /\ SmIdle

InitTracker == YtIdle /\ IdleOutsideTracker

NextTracker == MineLastWeek \/ MineLastMonth \/ MineLast6Months \/ MineFails \/ SelectDataSource

SpecTracker == InitTracker /\ [][NextTracker]_vars

InitMain == MainIdle /\ IdleOutsideMain

NextMain == ClickAnalyze \/ FetchAndAnalyze \/ FetchFails \/ SuggestTitles \/ Rerun

SpecMain == InitMain /\ [][NextMain]_vars

(***************************************************************************)
(* The summary of one source, lines 184-192 of main, on its own            *)
(***************************************************************************)
MaxSummaryPosts == 3

SummaryInputs == SeqsUpTo(Posts, MaxSummaryPosts)

InitSummary ==
    /\ sm_subreddit \in Range(SubredditOptions)
    /\ sm_df \in SummaryInputs
    /\ sm_result = [done |-> FALSE]
    /\ IdleOutsideSummary

BuildSummary ==
    /\ ~sm_result.done
    /\ sm_result' = [done |-> TRUE, entry |-> summary(sm_subreddit, sm_df)]
    /\ UNCHANGED <<sm_subreddit, sm_df>>
    /\ UNCHANGED outside_summary

NextSummary == BuildSummary

SpecSummary == InitSummary /\ [][NextSummary]_vars

(***************************************************************************)
(* The calls of the two backends of theme-tracker.py: the YouTube API in   *)
(* get_popular_videos and Gemini in generate_lecture_themes.  A call ends  *)
(* by returning a value or by an exception leaving it.                     *)
(***************************************************************************)
\* the options of the selectbox of line 438
AgeGroups == {"20-30", "30-40", "40-50", "50-60", "60+"}

\* age_characteristics of lines 208-214
age_characteristics ==
    [age_group \in AgeGroups |->
        CASE age_group = "20-30" -> "digital natives, social media focused, seeking authenticity, concerned about climate crisis, mental health aware"
          [] age_group = "30-40" -> "career-focused, starting families, balancing work-life, health conscious, pragmatic spirituality"
          [] age_group = "40-50" -> "mid-life reflection, established careers, parenting teens, seeking deeper meaning, stress management"
          [] age_group = "50-60" -> "empty nest transitions, career peak or change, caring for aging parents, legacy considerations"
          [] age_group = "60+" -> "retirement planning/living, health challenges, grandparenting, mortality awareness, wisdom sharing"]

\* the statements of the try block of generate_lecture_themes that call the
\* backend: genai.configure (line 201), genai.GenerativeModel (line 202),
\* model.generate_content (line 270) and response.text (line 271)
BackendSteps == {"configure", "GenerativeModel", "generate_content", "response.text"}

\* the cleaned text of the page of lines 48-68, shorter than the 10000
\* characters of line 222, or "" when line 47 failed before storing it
PhilosophyContexts == {"", "Rosacruz Aurea | LECTORIUM ROSICRUCIANUM ..."}

ResponseTexts == {"1. **Theme** ..."}

BackendOutcomes ==
    {[raises |-> "", text |-> text] : text \in ResponseTexts}
        \cup {[raises |-> step, text |-> ""] : step \in BackendSteps}

\* line 205
titles_context(video_data) ==
    [i \in 1..Len(video_data) |->
        [title |-> video_data[i].title, context |-> video_data[i].context]]

\* lines 217-268: the prompt, as the values its f-string is filled with
prompt(video_data, age_group, philosophy) ==
    [with_philosophy |-> philosophy # "",
     titles_context |-> titles_context(video_data),
     philosophy_context |-> philosophy,
     age_group |-> age_group,
     age_characteristics |-> age_characteristics[age_group]]

\* line 274: f"Error generating lecture themes: {str(e)}"
error_message(e) == [type |-> "str", prefix |-> "Error generating lecture themes: ", e |-> e]

\* line 271: response.text
response_text(text) == [type |-> "str", prefix |-> "", e |-> text]

generate_lecture_themes_return_outside_try(backend, video_data, age_group, philosophy) ==
    IF backend.raises \in {"configure", "GenerativeModel"}
    THEN Returned(error_message(backend.raises))
    ELSE IF \E i \in 1..Len(video_data) : video_data[i].context = Absent
    THEN Returned(error_message("KeyError: 'context'"))
    ELSE IF backend.raises = "generate_content"
    THEN Returned(error_message(backend.raises))
    ELSE IF backend.raises = "response.text"
    THEN Raised(backend.raises)
    ELSE Returned(response_text(backend.text))

\* generate_lecture_themes with its try and except (lines 198-274); the
\* backend answers the prompt with backend.text unless one of its steps raises
generate_lecture_themes(backend, video_data, age_group, philosophy) ==
    IF backend.raises \in {"configure", "GenerativeModel"}
    THEN Returned(error_message(backend.raises))
    ELSE IF \E i \in 1..Len(video_data) : video_data[i].context = Absent
    THEN Returned(error_message("KeyError: 'context'"))
    ELSE IF backend.raises \in {"generate_content", "response.text"}
    THEN Returned(error_message(backend.raises))
    ELSE Returned(response_text(backend.text))

\* the lists the generate button passes on: selected_videos, not empty
\* (line 446), every video classified when it was mined
VideoData == {add_context(get_popular_videos(items)) : items \in ApiResponses \ {<<>>}}

InitBackends ==
    /\ gp_api \in ApiOutcomes
    /\ gp_result = [done |-> FALSE]
    /\ lt_video_data \in VideoData
    /\ lt_age_group \in AgeGroups
    /\ lt_philosophy \in PhilosophyContexts
    /\ lt_backend \in BackendOutcomes
    /\ lt_result = [done |-> FALSE]
    /\ IdleOutsideBackends

CallGetPopularVideos ==
    /\ ~gp_result.done
    /\ gp_result' = [done |-> TRUE, out |-> try_get_popular_videos(gp_api)]
    /\ UNCHANGED <<gp_api, lt_vars>>
    /\ UNCHANGED outside_backends

CallGenerateLectureThemes ==
    /\ ~lt_result.done
    /\ lt_result' = [done |-> TRUE,
                     prompt |-> prompt(lt_video_data, lt_age_group, lt_philosophy),
                     out |-> generate_lecture_themes(lt_backend, lt_video_data,
                                                     lt_age_group, lt_philosophy)]
    /\ UNCHANGED <<lt_video_data, lt_age_group, lt_philosophy, lt_backend, gp_vars>>
    /\ UNCHANGED outside_backends

NextBackends == CallGetPopularVideos \/ CallGenerateLectureThemes

SpecBackends == InitBackends /\ [][NextBackends]_vars

(***************************************************************************)
(* Specification of generate_video_context as a function of its arguments  *)
(***************************************************************************)
Fragments ==
    { <<"M","e","d","i","t","a","t","i","o","n">>,
      <<"z","e","n">>,
      <<"f","a","i","t","h">>,
      <<"Y","O","G","A">>,
      <<"q","u","a","n","t","u","m">>,
      <<"r","a","n","d","o","m"," ","t","o","p","i","c">>,
      <<"n","o","t","h","i","n","g"," ","r","e","l","e","v","a","n","t">>,
      <<"t","a">>,
      <<"o">> }

MaxFragments == 2

RECURSIVE Concat(_)
Concat(parts) == IF parts = <<>> THEN <<>> ELSE Head(parts) \o Concat(Tail(parts))

\* 198 characters no rule matches, to reach the cap of the description
Padding == [i \in 1..198 |-> "x"]

TitleInputs == {<<>>} \cup Fragments

DescriptionInputs ==
    LET short == {Concat(parts) : parts \in SeqsUpTo(Fragments, MaxFragments)}
    IN short \cup {Padding \o d : d \in short}

InitClassify ==
    /\ cl_title \in TitleInputs
    /\ cl_description \in DescriptionInputs
    /\ cl_result = [done |-> FALSE, context |-> ""]
    /\ IdleOutsideClassify

CallGenerateVideoContext ==
    /\ ~cl_result.done
    /\ cl_result' = [done |-> TRUE, context |-> generate_video_context(cl_title, cl_description)]
    /\ UNCHANGED <<cl_title, cl_description>>
    /\ UNCHANGED outside_classify

NextClassify == CallGenerateVideoContext

SpecClassify == InitClassify /\ [][NextClassify]_vars

(***************************************************************************)
(* Specification of preprocess_text as a function of one text              *)
(***************************************************************************)
MaxTextLen == 4

TextChars == {"a", "c", "n", "s", "u", "U", "1", " "}

RECURSIVE StringsUpTo(_)
StringsUpTo(n) ==
    IF n = 0 THEN {<<>>}
    ELSE LET shorter == StringsUpTo(n - 1)
         IN shorter \cup {Append(s, c) : s \in {x \in shorter : Len(x) = n - 1}, c \in TextChars}

TextInputs == {PyStr(s) : s \in StringsUpTo(MaxTextLen)} \cup {PyNone, PyNaN}

InitNormalize ==
    /\ nz_text \in TextInputs
    /\ nz_result = NotCalled
    /\ IdleOutsideNormalize

CallPreprocessText ==
    /\ ~nz_result.done
    /\ \E nltk_raises \in BOOLEAN :
          nz_result' = [done |-> TRUE, tokens |-> preprocess_text(nz_text, nltk_raises)]
    /\ UNCHANGED nz_text
    /\ UNCHANGED outside_normalize

NextNormalize == CallPreprocessText

SpecNormalize == InitNormalize /\ [][NextNormalize]_vars

(***************************************************************************)
(* Properties                                                              *)
(***************************************************************************)
Occurrences(list, x) == Cardinality({i \in 1..Len(list) : list[i] = x})

\* the token sequence the normalizer returns for each post
ReturnedTokens ==
    [post \in Posts |-> preprocess_text(full_text(post), post.tokenize_raises)]

\* the token sequence of one item of a source
ItemTokens(post) == ReturnedTokens[post]

\* the pairs adjacent inside the items' own token sequences, item by item
RECURSIVE PerItemBigrams(_)
PerItemBigrams(df) ==
    IF df = <<>> THEN <<>>
    ELSE bigrams(ItemTokens(Head(df))) \o PerItemBigrams(Tail(df))

\* C1: the bigram table of every analysed source counts exactly the pairs of
\* tokens adjacent inside one item's own token sequence: the count of a pair
\* is the sum over the items of its occurrences inside the item, so that no
\* counted pair is the last token of an item followed by the first token of
\* the next item.
C1_BigramsStayInsideItems ==
    \A k \in 1..Len(all_results) :
        LET r == all_results[k]
            inside == PerItemBigrams(r.posts)
        IN \A e \in Range(r.bigram_freq) : e.n = Occurrences(inside, e.key)

CharRank(c) == CHOOSE i \in 1..Len(Letters) : Letters[i] = LowerChar(c)

\* a <= b in the lexicographic order of str
RECURSIVE StrLeq(_, _)
StrLeq(a, b) ==
    IF a = <<>> THEN TRUE
    ELSE IF b = <<>> THEN FALSE
    ELSE IF Head(a) = Head(b) THEN StrLeq(Tail(a), Tail(b))
    ELSE CharRank(Head(a)) < CharRank(Head(b))

PairLeq(a, b) == IF a[1] = b[1] THEN StrLeq(a[2], b[2]) ELSE StrLeq(a[1], b[1])

Min(a, b) == IF a < b THEN a ELSE b

\* where the terms of the k-th source start in the merged lists, and how many
WordBlockLen(k) == Min(TopWords, Len(all_results[k].word_freq))

BigramBlockLen(k) == Min(TopBigrams, Len(all_results[k].bigram_freq))

WordBlockStart(k) == SumSeq([j \in 1..(k - 1) |-> WordBlockLen(j)])

BigramBlockStart(k) == SumSeq([j \in 1..(k - 1) |-> BigramBlockLen(j)])

TitlesAttempted == pc = "titles" /\ all_results # <<>>

\* C3: once the term lists are merged, the terms taken from each source are
\* its top 5 unigrams and top 3 bigrams by descending count, equal counts in
\* lexicographic order: no term taken has a lower count than a term of the
\* same source that was left out.
C3_TakenTermsAreTopByCount ==
    TitlesAttempted =>
        \A k \in 1..Len(all_results) :
            LET wf == all_results[k].word_freq
                bf == all_results[k].bigram_freq
                w(i) == all_words[WordBlockStart(k) + i]
                b(i) == all_bigrams[BigramBlockStart(k) + i]
            IN /\ \A i \in 1..WordBlockLen(k) :
                      /\ \A e \in Range(wf) :
                             e.key \notin {w(j) : j \in 1..WordBlockLen(k)}
                                 => CountOf(wf, w(i)) >= e.n
                      /\ \A j \in (i + 1)..WordBlockLen(k) :
                             \/ CountOf(wf, w(i)) > CountOf(wf, w(j))
                             \/ CountOf(wf, w(i)) = CountOf(wf, w(j)) /\ StrLeq(w(i), w(j))
               /\ \A i \in 1..BigramBlockLen(k) :
                      /\ \A e \in Range(bf) :
                             e.key \notin {b(j) : j \in 1..BigramBlockLen(k)}
                                 => CountOf(bf, b(i)) >= e.n
                      /\ \A j \in (i + 1)..BigramBlockLen(k) :
                             \/ CountOf(bf, b(i)) > CountOf(bf, b(j))
                             \/ CountOf(bf, b(i)) = CountOf(bf, b(j)) /\ PairLeq(b(i), b(j))

\* C4: the merged term list and the merged bigram list are the per-source
\* selected lists one after the other in source order: the terms of a source
\* stand in one block after the blocks of all earlier sources, in the order
\* they have in that source, whatever the counts in the other sources are.
C4_MergedIsConcatenationInSourceOrder ==
    TitlesAttempted =>
        /\ Len(all_words) = WordBlockStart(Len(all_results) + 1)
        /\ Len(all_bigrams) = BigramBlockStart(Len(all_results) + 1)
        /\ \A k \in 1..Len(all_results) :
               /\ \A i \in 1..WordBlockLen(k) :
                      all_words[WordBlockStart(k) + i] = all_results[k].word_freq[i].key
               /\ \A i \in 1..BigramBlockLen(k) :
                      all_bigrams[BigramBlockStart(k) + i] = all_results[k].bigram_freq[i].key

\* two sources were merged, and a term of the later one has a higher count
\* than a term of the earlier one that precedes it in the merged list
C4_Witness ==
    /\ TitlesAttempted
    /\ Len(all_results) >= 2
    /\ \E i \in 1..WordBlockLen(1), j \in 1..WordBlockLen(2) :
           all_results[2].word_freq[j].n > all_results[1].word_freq[i].n

\* the merged lists do not fill the highest slots the templates name
InsufficientData == Len(all_words) < TopWords \/ Len(all_bigrams) < TopBigrams

InsufficientDataErrors ==
    { "InsufficientDataError: term slot 0", "InsufficientDataError: term slot 1",
      "InsufficientDataError: term slot 2", "InsufficientDataError: term slot 3",
      "InsufficientDataError: term slot 4", "InsufficientDataError: bigram slot 0",
      "InsufficientDataError: bigram slot 1", "InsufficientDataError: bigram slot 2" }

\* C5: given fewer merged terms than slot 4 needs or fewer merged bigrams
\* than slot 2 needs, generate_titles fails with an InsufficientDataError
\* naming the missing slot, and no list of titles is produced.
C5_InsufficientDataIsNamed ==
    (TitlesAttempted /\ InsufficientData) =>
        /\ st_error \in InsufficientDataErrors
        /\ titles = <<>>

\* the text the p-th part of the t-th template stands for
ExpectedPart(t, p) ==
    LET part == TEMPLATES[t][p]
    IN IF part.kind = "lit" THEN part.chars
       ELSE IF part.kind = "word" THEN title(all_words[part.slot + 1])
       ELSE title(all_bigrams[part.slot + 1][part.elem + 1])

\* the texts of the parts of the t-th template, one after the other
RECURSIVE ExpectedFrom(_, _)
ExpectedFrom(t, p) ==
    IF p > Len(TEMPLATES[t]) THEN <<>>
    ELSE ExpectedPart(t, p) \o ExpectedFrom(t, p + 1)

\* C6: given at least 5 merged terms and 3 merged bigrams, generate_titles
\* returns exactly 10 titles in the order the templates are declared, no
\* error, and every title is its template's literal text with the title-cased
\* terms of the slots the template names (terms 0..4, bigrams 0..2) in place.
C6_TenTitlesFromNamedSlots ==
    (TitlesAttempted /\ ~InsufficientData) =>
        /\ st_error = ""
        /\ Len(titles) = 10
        /\ \A t \in 1..Len(titles) :
               /\ t <= Len(TEMPLATES)
               /\ \A p \in 1..Len(TEMPLATES[t]) :
                      LET part == TEMPLATES[t][p]
                      IN /\ part.kind = "word" => part.slot \in 0..4
                         /\ part.kind = "bigram" => part.slot \in 0..2
               /\ titles[t] = ExpectedFrom(t, 1)

\* titles were generated from the terms of two sources
C6_Witness ==
    /\ TitlesAttempted
    /\ ~InsufficientData
    /\ Len(all_results) >= 2
    /\ WordBlockLen(1) < TopWords
    /\ titles # <<>>

IsLowerAlpha(token) == Len(token) > 0 /\ \A i \in 1..Len(token) : IsLowerChar(token[i])

\* C9: every token preprocess_text returns is lowercase, alphabetic, at least
\* 2 characters long and not a stopword.
C9_TokensAreClean ==
    nz_result.done =>
        \A i \in 1..Len(nz_result.tokens) :
            LET token == nz_result.tokens[i]
            IN /\ IsLowerAlpha(token)
               /\ Len(token) >= 2
               /\ token \notin stop_words

\* the text is absent, empty or all whitespace
IsBlank(v) == v.type # "str" \/ v.val = <<>> \/ isspace(v.val)

\* C10: preprocess_text returns the empty token sequence for the empty
\* string, for an all-whitespace string and for an absent text.
C10_BlankTextGivesNoTokens ==
    (nz_result.done /\ IsBlank(nz_text)) => nz_result.tokens = <<>>

\* the sources of the combined view in their order, with their cached lists
CombinedOrder == <<"Last Week", "Last Month", "Last 6 Months">>

CachedList(k) == session_state[data_mapping[CombinedOrder[k]]]

IdsOf(videos) == {videos[i].video_id : i \in 1..Len(videos)}

CachedIds == UNION {IdsOf(CachedList(k)) : k \in 1..Len(CombinedOrder)}

\* the earliest source that holds the video id, and its first item with it
EarliestSource(id) ==
    CHOOSE k \in 1..Len(CombinedOrder) :
        /\ id \in IdsOf(CachedList(k))
        /\ \A j \in 1..(k - 1) : id \notin IdsOf(CachedList(j))

FirstWithId(videos, id) ==
    videos[CHOOSE i \in 1..Len(videos) :
              /\ videos[i].video_id = id
              /\ \A j \in 1..(i - 1) : videos[j].video_id # id]

CombinedSelected == data_source = "Combined (All Time Periods)"

\* C2: in the combined view every video id of the three cached lists occurs
\* exactly once in the deduplicated result, and the item kept is the one of
\* the earliest source (Last Week, Last Month, Last 6 Months) holding the id,
\* tagged with that source's label.
C2_CombinedKeepsEarliestSource ==
    CombinedSelected =>
        /\ IdsOf(selected_videos) = CachedIds
        /\ \A i, j \in 1..Len(selected_videos) :
               selected_videos[i].video_id = selected_videos[j].video_id => i = j
        /\ \A i \in 1..Len(selected_videos) :
               LET id == selected_videos[i].video_id
                   k == EarliestSource(id)
               IN /\ selected_videos[i].source = CombinedOrder[k]
                  /\ selected_videos[i] = FirstWithId(CachedList(k), id)

\* the combined view over caches of which two hold the same video id
C2_Witness ==
    /\ CombinedSelected
    /\ Len(selected_videos) >= 2
    /\ \E j, k \in 1..Len(CombinedOrder) :
           j < k /\ IdsOf(CachedList(j)) \cap IdsOf(CachedList(k)) # {}

\* the text the classifier searches
ExaminedText == lower(cl_title) \o lower(brief_desc(cl_description))

RuleMatches(k) == re_search(RULES[k].pattern, ExaminedText)

\* C7: the classifier returns the label of the first rule, in the declared
\* order, whose pattern matches the lowercased title and description: when
\* several rules match, the label is the earliest matching rule's.
C7_FirstMatchingRuleWins ==
    cl_result.done =>
        \A k \in 1..Len(RULES) :
            (RuleMatches(k) /\ \A j \in 1..(k - 1) : ~RuleMatches(j))
                => cl_result.context = RULES[k].label

\* a classified input that two rules match
C7_Witness ==
    /\ cl_result.done
    /\ \E j, k \in 1..Len(RULES) : j < k /\ RuleMatches(j) /\ RuleMatches(k)

NoRuleMatches == \A k \in 1..Len(RULES) : ~RuleMatches(k)

ContextLabels ==
    { "Meditation/Mindfulness practice", "Eastern philosophy", "Christian spirituality",
      "Islamic spirituality", "Jewish spirituality", "Hindu spirituality",
      "Consciousness exploration", "Psychedelic spirituality", "Afterlife exploration",
      "Science and spirituality" }

\* C8, as stated: when no rule matches the classifier returns "general", and
\* every label returned is one of the closed set.
C8_DefaultIsGeneral ==
    cl_result.done =>
        /\ NoRuleMatches => cl_result.context = "general"
        /\ cl_result.context \in ContextLabels \cup {"general"}

\* C8, amended: when no rule matches the classifier returns "General
\* spiritual content", and every label returned is one of the ten rule labels
\* or that default.
C8_DefaultIsGeneralSpiritualContent ==
    cl_result.done =>
        /\ NoRuleMatches => cl_result.context = "General spiritual content"
        /\ cl_result.context \in ContextLabels \cup {"General spiritual content"}

\* classify("random topic", "nothing relevant")
C8_Witness ==
    /\ cl_result.done
    /\ NoRuleMatches
    /\ cl_title = <<"r","a","n","d","o","m"," ","t","o","p","i","c">>
    /\ cl_description = <<"n","o","t","h","i","n","g"," ","r","e","l","e","v","a","n","t">>

\* the score the claim gives an item: its own polarity, 0 when scoring it fails
RealScores(df) ==
    [i \in 1..Len(df) |-> IF df[i].scoring_raises THEN 0 ELSE df[i].polarity]

\* C11: when scoring fails for one item of a source, only that item's score
\* is 0: the mean sentiment stored for every analysed source is the mean of
\* the items' own polarities, with 0 standing for each item whose scoring
\* failed.
C11_OnlyFailingItemScoresZero ==
    \A k \in 1..Len(all_results) :
        LET r == all_results[k]
        IN /\ r.sentiment.n = Len(r.posts)
           /\ r.sentiment.sum = SumSeq(RealScores(r.posts))

\* a mean that is the number 0.0
IsZero(m) == m.n # 0 /\ m.sum = 0

EntriesOf(subreddit) == SelectSeq(all_results, LAMBDA r : r.subreddit = subreddit)

\* the passes of the loop whose fetch returned items, in order
RECURSIVE PassesWithItems(_)
PassesWithItems(k) ==
    IF k = 0 THEN <<>>
    ELSE IF dfs[k] = <<>> THEN PassesWithItems(k - 1)
         ELSE Append(PassesWithItems(k - 1), k)

\* the tables extract_themes returns for each DataFrame a fetch may return
ThemesOf == [df \in DataFrames |-> extract_themes(df)]

\* C13, as stated: once the loop over the selected sources is over, every
\* selected source has its summary in the results, a source whose fetch
\* failed or returned nothing having an empty one.
C13_FailedSourceContributesEmptySummary ==
    pc = "titles" =>
        /\ Len(dfs) = Len(subreddits)
        /\ \A k \in 1..Len(subreddits) :
              LET entries == EntriesOf(subreddits[k])
              IN /\ Len(entries) = 1
                 /\ entries[1].posts = dfs[k]
                 /\ dfs[k] = <<>> =>
                       /\ entries[1].word_freq = EmptyCounter
                       /\ entries[1].bigram_freq = EmptyCounter

\* C13, amended: a source whose fetch failed or returned nothing is left out
\* of the results and never ends the loop: every pass so far has fetched its
\* source, and the results are exactly the analyses of the sources whose
\* fetch returned items, in the order of selection; once the loop is over
\* every selected source has been fetched.
C13_FailedSourceIsSkipped ==
    /\ Len(dfs) = idx - 1
    /\ pc = "titles" => Len(dfs) = Len(subreddits)
    /\ LET passes == PassesWithItems(Len(dfs))
       IN /\ Len(all_results) = Len(passes)
          /\ \A j \in 1..Len(passes) :
                LET r == all_results[j]
                    themes == ThemesOf[dfs[passes[j]]]
                IN /\ r.subreddit = subreddits[passes[j]]
                   /\ r.posts = dfs[passes[j]]
                   /\ r.word_freq = themes.word_freq
                   /\ r.bigram_freq = themes.bigram_freq
    /\ \A k \in 1..Len(dfs) : dfs[k] = <<>> => EntriesOf(subreddits[k]) = <<>>

\* three sources selected, the fetch of the second returned nothing, the
\* first and the third are in the results
C13_Witness ==
    /\ pc = "titles"
    /\ Len(subreddits) = 3
    /\ dfs[1] # <<>> /\ dfs[2] = <<>> /\ dfs[3] # <<>>
    /\ Len(all_results) = 2
    /\ all_results[2].subreddit = subreddits[3]

\* C14: a call of generate_lecture_themes always ends by returning a string,
\* no exception leaves it, and when a step of the text-generation backend
\* raised, the string is the error message; a call of get_popular_videos
\* always ends by returning a list, which is empty when a step of the video
\* API raised.
C14_BackendFailuresAreReturned ==
    /\ lt_result.done =>
          /\ ~lt_result.out.raised
          /\ lt_result.out.value.type = "str"
          /\ lt_backend.raises # "" =>
                lt_result.out.value = error_message(lt_backend.raises)
          /\ lt_backend.raises = "" =>
                lt_result.out.value = response_text(lt_backend.text)
    /\ gp_result.done =>
          /\ ~gp_result.out.raised
          /\ gp_api.raises # "" => gp_result.out.value = <<>>
          /\ gp_api.raises = "" => Len(gp_result.out.value) = Len(gp_api.items)

\* response.text raises after generate_content answered, and the statistics
\* request of the video API raises
C14_Witness ==
    /\ lt_result.done
    /\ lt_backend.raises = "response.text"
    /\ lt_result.out = Returned(error_message("response.text"))
    /\ gp_result.done
    /\ gp_api.raises = "videos_request.execute"
    /\ gp_result.out = Returned(<<>>)

\* the tokens of the text of each post when nltk does not raise
TokensOfText == [post \in Posts |-> preprocess_text(full_text(post), FALSE)]

\* the tokens of the items of a source on which the normalizer does not fail
RECURSIVE TokensOfOtherItems(_)
TokensOfOtherItems(df) ==
    IF df = <<>> THEN <<>>
    ELSE IF Head(df).tokenize_raises THEN TokensOfOtherItems(Tail(df))
    ELSE TokensOfText[Head(df)] \o TokensOfOtherItems(Tail(df))

\* C15: a failure while tokenizing or lemmatizing the text of one item makes
\* that item contribute no token and does not end the batch: the unigram
\* table built of a source holds, for the tokens of all the other
\* items, their counts, and no other term.
C15_FailingItemContributesNoTokens ==
    sm_result.done =>
        LET r == sm_result.entry
            others == TokensOfOtherItems(sm_df)
        IN /\ r.posts = sm_df
           /\ \A i \in 1..Len(others) :
                 CountOf(r.word_freq, others[i]) = Occurrences(others, others[i])
           /\ \A e \in Range(r.word_freq) : Occurrences(others, e.key) > 0

\* a source of two items: the normalizer failed on one, the terms of the other
\* are in the table
C15_Witness ==
    /\ sm_result.done
    /\ Len(sm_df) = 2
    /\ sm_df[1].tokenize_raises
    /\ ~sm_df[2].tokenize_raises
    /\ sm_result.entry.word_freq # EmptyCounter

\* the concatenation of the token sequences the normalizer returned for the
\* items of a source
RECURSIVE NormalizedTokens(_)
NormalizedTokens(df) ==
    IF df = <<>> THEN <<>>
    ELSE ItemTokens(Head(df)) \o NormalizedTokens(Tail(df))

\* C16: the unigram table built of a source is a faithful count: it
\* has one entry for each distinct token of the items' normalized token
\* sequences, the count of a term is the number of its occurrences in their
\* concatenation, and the counts add up to the number of tokens.
C16_UnigramTableIsFaithfulCount ==
    sm_result.done =>
        LET r == sm_result.entry
            tokens == NormalizedTokens(sm_df)
            counts == [i \in 1..Len(r.word_freq) |-> r.word_freq[i].n]
        IN /\ \A i \in 1..Len(tokens) : HasKey(r.word_freq, tokens[i])
           /\ \A i, j \in 1..Len(r.word_freq) :
                 r.word_freq[i].key = r.word_freq[j].key => i = j
           /\ \A e \in Range(r.word_freq) : e.n = Occurrences(tokens, e.key)
           /\ SumSeq(counts) = Len(tokens)

\* a source of two items whose table holds a term that occurs in both
C16_Witness ==
    /\ sm_result.done
    /\ Len(sm_df) = 2
    /\ \E e \in Range(sm_result.entry.word_freq) :
          /\ e.n >= 2
          /\ Occurrences(ItemTokens(sm_df[1]), e.key) > 0
          /\ Occurrences(ItemTokens(sm_df[2]), e.key) > 0

\* a cached list without the source tags of the combined view
Untagged(videos) == [i \in 1..Len(videos) |-> [videos[i] EXCEPT !.source = Absent]]

\* the cache key of the mining button pressed in the last script run
MinedKey == data_mapping[button]

\* C17, as stated: the entry of a label is the complete, fully classified
\* result of the most recent fetch of that label: after a script run that
\* mined a label, the label's entry is what that fetch returned, every video
\* classified.
C17_EntryIsMostRecentFetch ==
    button # "" => Untagged(session_state[MinedKey]) = add_context(fetched)

\* C17, amended: the entry of every label is the complete, fully classified
\* result of the most recent fetch of that label that returned videos, its
\* videos tagged with no other source than that label; a script run that
\* mined a label and got videos leaves exactly them as the label's entry.
C17_EntryIsLastFetchThatReturnedVideos ==
    /\ \A label \in DOMAIN data_mapping :
          LET entry == session_state[data_mapping[label]]
          IN /\ Untagged(entry) = add_context(last_stored[data_mapping[label]])
             /\ \A i \in 1..Len(entry) :
                   /\ entry[i].context # Absent
                   /\ entry[i].source \in {Absent, label}
    /\ (button # "" /\ fetched # <<>>) =>
          /\ last_stored[MinedKey] = fetched
          /\ Untagged(session_state[MinedKey]) = add_context(fetched)

\* the last run mined the monthly window and got two videos, which are its
\* entry; the other two windows hold videos too, tagged by the combined view
C17_Witness ==
    /\ button = "Last Month"
    /\ Len(fetched) = 2
    /\ Len(session_state["monthly_videos"]) = 2
    /\ session_state["weekly_videos"] # <<>>
    /\ session_state["biannual_videos"] # <<>>
    /\ data_source = "Combined (All Time Periods)"

\* C18: a script run that mines one window leaves the cache entries of the
\* other two windows as they were, and when its fetch fails or returns no
\* videos it leaves the entry of the mined window as it was too.
C18_MiningChangesOnlyItsOwnEntry ==
    [][button' # "" =>
          /\ \A key \in SessionKeys \ {data_mapping[button']} :
                session_state'[key] = session_state[key]
          /\ fetched' = <<>> =>
                session_state'[data_mapping[button']]
                    = session_state[data_mapping[button']]]_vars

\* the last run mined a window and got nothing, and all three windows hold
\* videos, tagged by the combined view
C18_Witness ==
    /\ button = "Last Week"
    /\ fetched = <<>>
    /\ \A key \in SessionKeys : session_state[key] # <<>>
    /\ data_source = "Combined (All Time Periods)"
    /\ session_state["weekly_videos"][1].source = "Last Week"

====
